---- MODULE Spec2Model ----
(***************************************************************************)
(* The peer-to-peer signaling and session lifecycle of the two call hooks: *)
(*   useVideoCall  (src/src/hooks/use-video-call.tsx)                      *)
(*   useVoiceChat  (src/unnamed/part_015)                                  *)
(* A participant runs one instance of the hook.  The hooks talk through    *)
(* the broadcast relay: an unordered, lossy, at-most-once fan-out to the   *)
(* participants that are subscribed when a message is published.           *)
(* An await in the source is a suspension point: the code up to it is one  *)
(* action and the continuation after it another.  createOffer/createAnswer *)
(* change nothing and reject only where the setLocalDescription that       *)
(* follows rejects too, so each is one step with that call.                *)
(*                                                                         *)
(* replaceTrack is taken to have settled when the step that calls it ends. *)
(*                                                                         *)
(* The operations of the hooks are called as the pages call them: a join   *)
(* only while the participant is not in a call and has no join suspended   *)
(* (the call view covers the join button), leave and the screen share      *)
(* operations at any moment.  The voice room list stays in reach while     *)
(* connected: joinRoom for another room is the action joinOtherRoom, which *)
(* is part of SpecRooms.  One join is suspended at a time.                 *)
(*                                                                         *)
(* The specifications share the actions:                                   *)
(*   SpecMesh   both participants a and b run the hook and exchange their  *)
(*              messages through the relay; connections can fail;          *)
(*   SpecEnv    participant a runs the hook and the other participants b   *)
(*              and c are arbitrary clients: any message, in any order;    *)
(*   SpecShare  participant a runs the video hook with screen sharing and  *)
(*              b sends it any negotiation message;                        *)
(*   SpecAudio  participant a runs the voice hook, mutes and deafens, and  *)
(*              b sends it any negotiation message;                        *)
(*   SpecPair   a and b join and stay, nothing is lost and every step but  *)
(*              the calls of the users is eventually taken;                *)
(*   SpecHealth participant a runs the hook and its connections come up,   *)
(*              get disconnected, recover and fail;                        *)
(*   SpecDepart a and b join and leave, nothing is lost, delivery in any   *)
(*              order, every step but the users' calls eventually taken;   *)
(*   SpecRooms  participant a runs the voice hook and also joins another   *)
(*              room while connected;                                      *)
(*   SpecMedia  participant a runs either hook and switches its microphone *)
(*              and camera off and on.                                     *)
(* Each specification admits a bounded number of calls and outside events  *)
(* (budget); the steps these trigger are not bounded.                      *)
(***************************************************************************)
EXTENDS Integers, Sequences, FiniteSets, Bags, TLC

\* ------------------------------------------------------------------ bounds
MeshEvents == 3     \* SpecMesh: join calls, leave calls and connection failures
EnvEvents == 4      \* SpecEnv: join calls, leave calls and messages of the others
ShareEvents == 5    \* SpecShare: join, leave, share and stop calls and messages of b
MaxLeaving == 2      \* leaveRoom calls suspended at the presence delete
AudioEvents == 3    \* SpecAudio: join calls, leave calls and messages of b
PairEvents == 2     \* SpecPair: join calls
HealthEvents == 4   \* SpecHealth: join and leave calls, messages of b, connection events
DepartEvents == 3   \* SpecDepart: join and leave calls
RoomEvents == 4     \* SpecRooms: join and leave calls and messages of b
MediaEvents == 3    \* SpecMedia: join and leave calls

\* -------------------------------------------------------------- identities
Users == {"a", "b"}          \* participants that can run the hook
Ids == {"a", "b", "c"}       \* participant identities of the room
NoId == "-"                  \* SignalMessage.to absent
Modes == {"video", "voice"}

SignalTypes == {"join", "offer", "answer", "ice-candidate", "leave",
                "screen-share-start", "screen-share-stop"}

VARIABLES
  graceTimer,      \* per peer id: pending 5 s timeouts of a "disconnected" event
  isMuted,         \* isMuted
  isDeafened,      \* isDeafened (voice)
  micOn,           \* enabled of the audio track of the local capture stream
  isVideoOff,      \* isVideoOff (video)
  camOn,           \* enabled of the video track of the local capture stream
  mode,            \* which hook the participants run
  jc,              \* joinCall/joinRoom: "idle", or the await it is suspended at
  lv,              \* leaveRoom invocations suspended at the await of the presence delete
  joins,           \* number of local capture streams acquired so far
  localStreamRef,  \* localStreamRef.current: 0 (null) or the stream's number
  live,            \* capture streams whose tracks have not been stopped
  chan,            \* the channel objects created so far, each with its state
  channelRef,      \* channelRef.current: 0 (null) or the channel's number
  joinTimer,       \* channels whose 100 ms "send join" timeout is pending
  reconnectTimer,  \* reconnectTimeoutRef.current is pending
  isInCall,        \* isInCall (video) / isConnected and currentRoom (voice)
  presence,        \* voice_room_participants rows of the participant
  peersRef,        \* peersRef.current: peer id -> pc number (0: no entry)
  peers,           \* peers state exposed to the UI (its key set)
  pcs,             \* the RTCPeerConnection objects created so far
  handlers,        \* bag of handleSignal invocations suspended at an await
  ss,              \* startScreenShare invocations suspended at getDisplayMedia
  screens,         \* number of screen capture streams acquired so far
  screenStreamRef, \* screenStreamRef.current: 0 (null) or the stream's number
  liveScreens,     \* screen streams whose video track has not ended
  isScreenSharing, \* isScreenSharing
  stoppedInUse,    \* history: a track was stopped while an open connection sent it
  net,             \* messages in flight on the relay
  budget,          \* how many more bounded events the specification admits
  sent,            \* history: bag of the messages handed to channel.send
  joinCnt,         \* history: joins handled, by sender
  left,            \* history: leave was called and no join was called since
  alone,           \* history: nobody else was subscribed when the join went out
  ev               \* history: what the last step was

sessVars == <<jc, lv, joins, localStreamRef, live, chan, channelRef, joinTimer,
              reconnectTimer, isInCall, presence>>
regVars == <<peersRef, peers, pcs, handlers>>
shareVars == <<ss, screens, screenStreamRef, liveScreens, isScreenSharing, stoppedInUse>>
histVars == <<sent, joinCnt, left, alone>>
camVars == <<isVideoOff, camOn>>
audioVars == <<isMuted, isDeafened, micOn, camVars>>
vars == <<mode, graceTimer, audioVars, sessVars, regVars, shareVars, net, budget, histVars, ev>>

\* ----------------------------------------------------------------- tracks
MicTrack(n) == [kind |-> "audio", src |-> "mic", n |-> n]
CamTrack(n) == [kind |-> "video", src |-> "cam", n |-> n]
ScreenTrack(k) == [kind |-> "video", src |-> "screen", n |-> k]

\* getUserMedia constraints: audio + video (video hook), audio only (voice hook)
getTracks(md, n) ==
  IF n = 0 THEN <<>>
  ELSE IF md = "video" THEN <<MicTrack(n), CamTrack(n)>> ELSE <<MicTrack(n)>>

\* ------------------------------------------------------- peer connections
\* rx is the enabled state of the audio track of the entry's incoming stream
\* (peer.stream): "none" while the entry has no stream
NewPc(p) == [remote |-> p, sig |-> "stable", conn |-> "new", est |-> FALSE,
             senders |-> <<>>, rx |-> "none"]

IsOpen(pc) == pc.sig # "closed"

close(pc) == [pc EXCEPT !.sig = "closed", !.conn = "closed"]

SeqRange(s) == {s[i] : i \in DOMAIN s}

RECURSIVE addTracks(_, _)
\* currentLocalStream.getTracks().forEach: addTrack unless a sender has the track
addTracks(senders, tracks) ==
  IF tracks = <<>> THEN senders
  ELSE addTracks(IF Head(tracks) \in SeqRange(senders) THEN senders
                 ELSE Append(senders, Head(tracks)),
                 Tail(tracks))

\* ------------------------------------------------------------------ relay
Listening(u) == \E n \in DOMAIN chan[u] : chan[u][n] = "subscribed"

Msg(t, f, to) == [type |-> t, from |-> f, to |-> to]

\* the channel on which participant v is subscribed
Subscription(v) == CHOOSE n \in DOMAIN chan[v] : chan[v][n] = "subscribed"

\* what the relay does with a message that participant u publishes: fan-out to
\* the other participants subscribed at that moment, each on its subscription
publish(u, m) ==
  net \cup {[type |-> m.type, from |-> m.from, to |-> m.to, rcpt |-> v,
             ch |-> Subscription(v)] : v \in {w \in Users \ {u} : Listening(w)}}

\* channel.send(m) on channel n (0: channelRef.current is null, nothing is
\* called).  On a channel that is not joined (not yet subscribed, or removed)
\* the client library either drops the broadcast or posts it to the relay over
\* HTTP, depending on its version.
send(u, n, m) ==
  /\ sent' = [sent EXCEPT ![u] = IF n # 0 THEN @ (+) SetToBag({m}) ELSE @]
  /\ IF n = 0 THEN net' = net
     ELSE IF chan[u][n] = "subscribed" THEN net' = publish(u, m)
     ELSE net' \in {net, publish(u, m)}

\* the steps the history tells apart; every other step is "other"
Tracked == {"leave", "leaveAgain", "loopback", "misaddressed",
            "startShare", "stopShare", "stopAfterStart", "joinFailed",
            "rejected", "toggleMute", "toggleDeafen",
            "failed", "disconnected", "graceExpired",
            "unknownPeer", "peerLeft", "toggleVideo", "toggleIdle"}
Ev(op, u) == ev' = IF op \in Tracked THEN [op |-> op, u |-> u]
                   ELSE [op |-> "other", u |-> NoId]

InitCommon ==
  /\ mode \in Modes
  /\ graceTimer = [u \in Users |-> [p \in Ids |-> 0]]
  /\ isMuted = [u \in Users |-> FALSE]
  /\ isDeafened = [u \in Users |-> FALSE]
  /\ micOn = [u \in Users |-> TRUE]
  /\ isVideoOff = [u \in Users |-> FALSE]
  /\ camOn = [u \in Users |-> TRUE]
  /\ jc = [u \in Users |-> "idle"]
  /\ lv = [u \in Users |-> 0]
  /\ joins = [u \in Users |-> 0]
  /\ localStreamRef = [u \in Users |-> 0]
  /\ live = [u \in Users |-> {}]
  /\ chan = [u \in Users |-> <<>>]
  /\ channelRef = [u \in Users |-> 0]
  /\ joinTimer = [u \in Users |-> {}]
  /\ reconnectTimer = [u \in Users |-> FALSE]
  /\ isInCall = [u \in Users |-> FALSE]
  /\ presence = [u \in Users |-> 0]
  /\ peersRef = [u \in Users |-> [p \in Ids |-> 0]]
  /\ peers = [u \in Users |-> {}]
  /\ pcs = [u \in Users |-> <<>>]
  /\ handlers = [u \in Users |-> EmptyBag]
  /\ ss = [u \in Users |-> 0]
  /\ screens = [u \in Users |-> 0]
  /\ screenStreamRef = [u \in Users |-> 0]
  /\ liveScreens = [u \in Users |-> {}]
  /\ isScreenSharing = [u \in Users |-> FALSE]
  /\ stoppedInUse = [u \in Users |-> FALSE]
  /\ net = {}
  /\ sent = [u \in Users |-> EmptyBag]
  /\ joinCnt = [u \in Users |-> [p \in Ids |-> 0]]
  /\ left = [u \in Users |-> FALSE]
  /\ alone = [u \in Users |-> FALSE]
  /\ ev = [op |-> "other", u |-> NoId]

\* ============================================================ video: join
\* joinCall, up to the await of getUserMedia.  The call is made from the join
\* button of a participant that is not in a call and has no join in progress.
joinCall(u) ==
  /\ mode = "video"
  /\ jc[u] = "idle" /\ ~isInCall[u] /\ budget > 0
  /\ budget' = budget - 1
  /\ jc' = [jc EXCEPT ![u] = "getUserMedia"]
  /\ left' = [left EXCEPT ![u] = FALSE]
  /\ alone' = [alone EXCEPT ![u] = FALSE]
  /\ Ev("joinCall", u)
  /\ UNCHANGED <<mode, graceTimer, audioVars, shareVars, lv, joins, localStreamRef, live, chan, channelRef, joinTimer,
                 reconnectTimer, isInCall, presence, regVars, net, sent, joinCnt>>

\* getUserMedia resolved: the rest of joinCall runs without another await
joinCallAcquired(u) ==
  /\ mode = "video" /\ jc[u] = "getUserMedia"
  /\ LET n == joins[u] + 1 IN
       /\ joins' = [joins EXCEPT ![u] = n]
       /\ live' = [live EXCEPT ![u] = @ \cup {n}]
       /\ localStreamRef' = [localStreamRef EXCEPT ![u] = n]
  /\ chan' = [chan EXCEPT ![u] = Append(@, "pending")]
  /\ channelRef' = [channelRef EXCEPT ![u] = Len(chan[u]) + 1]
  /\ isInCall' = [isInCall EXCEPT ![u] = TRUE]
  /\ jc' = [jc EXCEPT ![u] = "idle"]
  /\ Ev("joinCallAcquired", u)
  /\ micOn' = [micOn EXCEPT ![u] = TRUE] /\ camOn' = [camOn EXCEPT ![u] = TRUE]
  /\ UNCHANGED <<isMuted, isDeafened, isVideoOff>>
  /\ UNCHANGED <<mode, graceTimer, shareVars, lv, joinTimer, reconnectTimer, presence, regVars, net, budget,
                 histVars>>

\* variant: the failure is raised after the channel was created
joinFailedWithChannel(u) ==
  /\ jc[u] = "getUserMedia"
  /\ jc' = [jc EXCEPT ![u] = "idle"]
  /\ chan' = [chan EXCEPT ![u] = Append(@, "pending")]
  /\ channelRef' = [channelRef EXCEPT ![u] = Len(chan[u]) + 1]
  /\ Ev("joinFailed", u)
  /\ UNCHANGED <<mode, graceTimer, audioVars, shareVars, lv, joins, localStreamRef, live, joinTimer,
                 reconnectTimer, isInCall, presence, regVars, net, budget, histVars>>

\* getUserMedia rejected: the catch block reports the error
joinFailed(u) ==
  /\ jc[u] = "getUserMedia"
  /\ jc' = [jc EXCEPT ![u] = "idle"]
  /\ Ev("joinFailed", u)
  /\ UNCHANGED <<mode, graceTimer, audioVars, shareVars, lv, joins, localStreamRef, live, chan, channelRef, joinTimer,
                 reconnectTimer, isInCall, presence, regVars, net, budget, histVars>>

\* ============================================================ voice: join
joinRoom(u) ==
  /\ mode = "voice"
  /\ jc[u] = "idle" /\ ~isInCall[u] /\ budget > 0
  /\ budget' = budget - 1
  /\ jc' = [jc EXCEPT ![u] = "getUserMedia"]
  /\ left' = [left EXCEPT ![u] = FALSE]
  /\ alone' = [alone EXCEPT ![u] = FALSE]
  /\ Ev("joinRoom", u)
  /\ UNCHANGED <<mode, graceTimer, audioVars, shareVars, lv, joins, localStreamRef, live, chan, channelRef, joinTimer,
                 reconnectTimer, isInCall, presence, regVars, net, sent, joinCnt>>

\* joinRoom for another room, called from the room list while connected: the
\* hook has no test of currentRoom, the list only keeps the current room's
\* button inert
joinOtherRoom(u) ==
  /\ mode = "voice"
  /\ jc[u] = "idle" /\ isInCall[u] /\ budget > 0
  /\ budget' = budget - 1
  /\ jc' = [jc EXCEPT ![u] = "getUserMedia"]
  /\ left' = [left EXCEPT ![u] = FALSE]
  /\ alone' = [alone EXCEPT ![u] = FALSE]
  /\ Ev("joinOtherRoom", u)
  /\ UNCHANGED <<mode, graceTimer, audioVars, shareVars, lv, joins, localStreamRef, live, chan, channelRef, joinTimer,
                 reconnectTimer, isInCall, presence, regVars, net, sent, joinCnt>>

\* getUserMedia resolved: the stream is kept, then the presence insert is awaited
joinRoomAcquired(u) ==
  /\ mode = "voice" /\ jc[u] = "getUserMedia"
  /\ LET n == joins[u] + 1 IN
       /\ joins' = [joins EXCEPT ![u] = n]
       /\ live' = [live EXCEPT ![u] = @ \cup {n}]
       /\ localStreamRef' = [localStreamRef EXCEPT ![u] = n]
  /\ jc' = [jc EXCEPT ![u] = "insert"]
  /\ Ev("joinRoomAcquired", u)
  /\ micOn' = [micOn EXCEPT ![u] = TRUE] /\ UNCHANGED <<isMuted, isDeafened, camVars>>
  /\ UNCHANGED <<mode, graceTimer, shareVars, lv, chan, channelRef, joinTimer, reconnectTimer, isInCall,
                 presence, regVars, net, budget, histVars>>

\* the insert settled (it resolves also on a database error): channel, currentRoom.
\* The row is one more when the participant is connected to another room.
joinRoomInserted(u) ==
  /\ mode = "voice" /\ jc[u] = "insert"
  /\ chan' = [chan EXCEPT ![u] = Append(@, "pending")]
  /\ channelRef' = [channelRef EXCEPT ![u] = Len(chan[u]) + 1]
  /\ presence' = [presence EXCEPT ![u] = IF isInCall[u] THEN @ + 1 ELSE 1]
  /\ isInCall' = [isInCall EXCEPT ![u] = TRUE]
  /\ jc' = [jc EXCEPT ![u] = "idle"]
  /\ Ev("joinRoomInserted", u)
  /\ UNCHANGED <<mode, graceTimer, audioVars, shareVars, lv, joins, localStreamRef, live, joinTimer, reconnectTimer,
                 regVars, net, budget, histVars>>

\* ==================================================== channel subscription
\* subscribe callback with status SUBSCRIBED: schedules the join broadcast
subscribed(u, n) ==
  /\ n \in DOMAIN chan[u] /\ chan[u][n] \in {"pending", "errored"}
  /\ chan' = [chan EXCEPT ![u][n] = "subscribed"]
  /\ joinTimer' = [joinTimer EXCEPT ![u] = @ \cup {n}]
  /\ Ev("subscribed", u)
  /\ UNCHANGED <<mode, graceTimer, audioVars, shareVars, jc, lv, joins, localStreamRef, live, channelRef, reconnectTimer,
                 isInCall, presence, regVars, net, budget, histVars>>

\* subscribe callback with status CHANNEL_ERROR, TIMED_OUT or CLOSED: the
\* callback does nothing (the client library may still subscribe later)
subscribeFailed(u, n) ==
  /\ n \in DOMAIN chan[u] /\ chan[u][n] = "pending"
  /\ chan' = [chan EXCEPT ![u][n] = "errored"]
  /\ Ev("subscribeFailed", u)
  /\ UNCHANGED <<mode, graceTimer, audioVars, shareVars, jc, lv, joins, localStreamRef, live, channelRef, joinTimer,
                 reconnectTimer, isInCall, presence, regVars, net, budget, histVars>>

\* the 100 ms timeout: channel.send of a join, on the channel of the closure
sendJoin(u, n) ==
  /\ n \in joinTimer[u]
  /\ joinTimer' = [joinTimer EXCEPT ![u] = @ \ {n}]
  /\ send(u, n, Msg("join", u, NoId))
  /\ alone' = [alone EXCEPT ![u] = \A w \in Users \ {u} : ~Listening(w)]
  /\ Ev("sendJoin", u)
  /\ UNCHANGED <<mode, graceTimer, audioVars, shareVars, jc, lv, joins, localStreamRef, live, chan, channelRef,
                 reconnectTimer, isInCall, presence, regVars, budget, joinCnt, left>>

\* variant: the channel stays subscribed
keepChannel(ch, n) == ch

\* supabase.removeChannel
removeChannel(ch, n) == IF n = 0 THEN ch ELSE [ch EXCEPT ![n] = "removed"]

ClosedAll(ps) == [i \in DOMAIN ps |-> close(ps[i])]
NoEntries == [p \in Ids |-> 0]

LeaveEv(u) ==
  ev' = [op |-> IF ev.u = u /\ ev.op \in {"leave", "leaveAgain"} THEN "leaveAgain"
                ELSE "leave",
         u |-> u]

\* variant: leaveCall that keeps channelRef.current
leaveCallKeepsChannel(u) ==
  /\ mode = "video"
  /\ budget > 0
  /\ budget' = budget - 1
  /\ reconnectTimer' = [reconnectTimer EXCEPT ![u] = FALSE]
  /\ send(u, channelRef[u], Msg("leave", u, NoId))
  /\ pcs' = [pcs EXCEPT ![u] = ClosedAll(@)]
  /\ peersRef' = [peersRef EXCEPT ![u] = NoEntries]
  /\ peers' = [peers EXCEPT ![u] = {}]
  /\ live' = [live EXCEPT ![u] = @ \ {localStreamRef[u]}]
  /\ localStreamRef' = [localStreamRef EXCEPT ![u] = 0]
  /\ chan' = [chan EXCEPT ![u] = removeChannel(@, channelRef[u])]
  /\ liveScreens' = [liveScreens EXCEPT ![u] = @ \ {screenStreamRef[u]}]
  /\ screenStreamRef' = [screenStreamRef EXCEPT ![u] = 0]
  /\ isScreenSharing' = [isScreenSharing EXCEPT ![u] = FALSE]
  /\ isInCall' = [isInCall EXCEPT ![u] = FALSE]
  /\ left' = [left EXCEPT ![u] = TRUE]
  /\ LeaveEv(u)
  /\ isMuted' = [isMuted EXCEPT ![u] = FALSE] /\ isVideoOff' = [isVideoOff EXCEPT ![u] = FALSE]
  /\ UNCHANGED <<isDeafened, micOn, camOn>>
  /\ UNCHANGED <<mode, graceTimer, ss, screens, stoppedInUse, jc, lv, joins, joinTimer, presence, handlers, joinCnt, alone,
                 channelRef>>

\* =========================================================== video: leave
leaveCall(u) ==
  /\ mode = "video"
  /\ budget > 0
  /\ budget' = budget - 1
  /\ reconnectTimer' = [reconnectTimer EXCEPT ![u] = FALSE]
  /\ send(u, channelRef[u], Msg("leave", u, NoId))
  /\ pcs' = [pcs EXCEPT ![u] = ClosedAll(@)]
  /\ peersRef' = [peersRef EXCEPT ![u] = NoEntries]
  /\ peers' = [peers EXCEPT ![u] = {}]
  /\ live' = [live EXCEPT ![u] = @ \ {localStreamRef[u]}]
  /\ localStreamRef' = [localStreamRef EXCEPT ![u] = 0]
  /\ chan' = [chan EXCEPT ![u] = removeChannel(@, channelRef[u])]
  /\ channelRef' = [channelRef EXCEPT ![u] = 0]
  /\ liveScreens' = [liveScreens EXCEPT ![u] = @ \ {screenStreamRef[u]}]
  /\ screenStreamRef' = [screenStreamRef EXCEPT ![u] = 0]
  /\ isScreenSharing' = [isScreenSharing EXCEPT ![u] = FALSE]
  /\ isInCall' = [isInCall EXCEPT ![u] = FALSE]
  /\ left' = [left EXCEPT ![u] = TRUE]
  /\ UNCHANGED alone
  /\ LeaveEv(u)
  /\ isMuted' = [isMuted EXCEPT ![u] = FALSE] /\ isVideoOff' = [isVideoOff EXCEPT ![u] = FALSE]
  /\ UNCHANGED <<isDeafened, micOn, camOn>>
  /\ UNCHANGED <<mode, graceTimer, ss, screens, stoppedInUse, jc, lv, joins, joinTimer, presence, handlers, joinCnt>>

\* =========================================================== voice: leave
\* leaveRoom up to the await of the presence delete; it returns at once when
\* currentRoom is null
leaveRoom(u) ==
  /\ mode = "voice"
  /\ budget > 0
  /\ budget' = budget - 1
  /\ left' = [left EXCEPT ![u] = TRUE]
  /\ UNCHANGED alone
  /\ LeaveEv(u)
  /\ IF ~isInCall[u]
     THEN UNCHANGED <<mode, graceTimer, audioVars, shareVars, sessVars, regVars, net, sent, joinCnt>>
     ELSE /\ lv[u] < MaxLeaving
          /\ send(u, channelRef[u], Msg("leave", u, NoId))
          /\ pcs' = [pcs EXCEPT ![u] = ClosedAll(@)]
          /\ peersRef' = [peersRef EXCEPT ![u] = NoEntries]
          /\ peers' = [peers EXCEPT ![u] = {}]
          /\ live' = [live EXCEPT ![u] = @ \ {localStreamRef[u]}]
          /\ localStreamRef' = [localStreamRef EXCEPT ![u] = 0]
          /\ chan' = [chan EXCEPT ![u] = removeChannel(@, channelRef[u])]
          /\ channelRef' = [channelRef EXCEPT ![u] = 0]
          /\ lv' = [lv EXCEPT ![u] = @ + 1]
          /\ UNCHANGED <<mode, graceTimer, audioVars, shareVars, jc, joins, joinTimer, reconnectTimer, isInCall, presence,
                         handlers, joinCnt>>

\* the presence delete settled (the row of currentRoom): currentRoom and the
\* flags are reset
leaveRoomDeleted(u) ==
  /\ mode = "voice" /\ lv[u] > 0
  /\ lv' = [lv EXCEPT ![u] = @ - 1]
  /\ presence' = [presence EXCEPT ![u] = IF @ > 0 THEN @ - 1 ELSE 0]
  /\ isInCall' = [isInCall EXCEPT ![u] = FALSE]
  /\ Ev("leaveRoomDeleted", u)
  /\ isMuted' = [isMuted EXCEPT ![u] = FALSE]
  /\ isDeafened' = [isDeafened EXCEPT ![u] = FALSE] /\ UNCHANGED <<micOn, camVars>>
  /\ UNCHANGED <<mode, graceTimer, shareVars, jc, joins, localStreamRef, live, chan, channelRef, joinTimer,
                 reconnectTimer, regVars, net, budget, histVars>>

\* ============================================================== signaling
Handler(k, p, i, st) == [kind |-> k, from |-> p, pc |-> i, step |-> st]

Suspend(u, h) == handlers' = [handlers EXCEPT ![u] = @ (+) SetToBag({h})]
Resume(hs, h) == hs (-) SetToBag({h})

\* variant: only the loopback test, without the test of the addressee
DiscardedLoopbackOnly(u, m) == m.from = u

\* the two early returns of handleSignal
Discarded(u, m) == m.from = u \/ (m.to # NoId /\ m.to # u)

\* variant: a connection is created for every message, without the lookup
getOrCreateFresh(u, p) ==
  [id |-> Len(pcs[u]) + 1, pcs |-> Append(pcs[u], NewPc(p))]

\* peersRef.current.get(from), and createPeerConnection + set when there is none
getOrCreate(u, p) ==
  IF peersRef[u][p] # 0 THEN [id |-> peersRef[u][p], pcs |-> pcs[u]]
  ELSE [id |-> Len(pcs[u]) + 1, pcs |-> Append(pcs[u], NewPc(p))]

\* the "join" and "offer" cases up to their first await
startNegotiation(u, m, firstStep) ==
  LET got == getOrCreate(u, m.from)
      pc == got.pcs[got.id]
      withTracks == [pc EXCEPT !.senders = addTracks(@, getTracks(mode, localStreamRef[u]))]
  IN /\ peersRef' = [peersRef EXCEPT ![u][m.from] = got.id]
     /\ pcs' = [pcs EXCEPT ![u] = [got.pcs EXCEPT ![got.id] = withTracks]]
     /\ Suspend(u, Handler(m.type, m.from, got.id, firstStep))

\* setPeers(new Map(peersRef.current))
setPeers(u) == peers' = [peers EXCEPT ![u] = {q \in Ids : peersRef'[u][q] # 0}]

\* variant: the entry is deleted and its connection left open
removePeerKeepsOpen(u, p) ==
  IF peersRef[u][p] # 0
  THEN /\ peersRef' = [peersRef EXCEPT ![u][p] = 0]
       /\ setPeers(u)
       /\ UNCHANGED pcs
  ELSE UNCHANGED <<peersRef, peers, pcs>>

\* removePeer(peerId)
removePeer(u, p) ==
  IF peersRef[u][p] # 0
  THEN /\ pcs' = [pcs EXCEPT ![u][peersRef[u][p]] = close(@)]
       /\ peersRef' = [peersRef EXCEPT ![u][p] = 0]
       /\ setPeers(u)
  ELSE UNCHANGED <<peersRef, peers, pcs>>

\* variant: the "answer" case creates the entry it does not find
handleAnswerCreating(u, m) ==
  LET got == getOrCreate(u, m.from) IN
    /\ peersRef' = [peersRef EXCEPT ![u][m.from] = got.id]
    /\ pcs' = [pcs EXCEPT ![u] = got.pcs]
    /\ Suspend(u, Handler("answer", m.from, got.id, "setRemoteDescription"))
    /\ UNCHANGED <<peers, joinCnt>>

\* the "answer" case up to its await: peersRef.current.get(from) and the test
\* of the signaling state
handleAnswer(u, m) ==
  /\ IF peersRef[u][m.from] # 0
        /\ pcs[u][peersRef[u][m.from]].sig # "stable"
     THEN Suspend(u, Handler("answer", m.from, peersRef[u][m.from],
                             "setRemoteDescription"))
     ELSE UNCHANGED handlers
  /\ UNCHANGED <<peersRef, peers, pcs, joinCnt>>

\* handleSignal(message) up to its first await
handleSignal(u, m) ==
  IF Discarded(u, m) THEN UNCHANGED <<regVars, joinCnt>>
  ELSE CASE m.type = "join" ->
              /\ startNegotiation(u, m, "createOffer")
              /\ joinCnt' = [joinCnt EXCEPT ![u][m.from] = @ + 1]
              /\ UNCHANGED peers
         [] m.type = "offer" ->
              /\ startNegotiation(u, m, "setRemoteDescription")
              /\ UNCHANGED <<peers, joinCnt>>
         [] m.type = "answer" -> handleAnswer(u, m)
         [] m.type = "leave" ->
              /\ removePeer(u, m.from)
              /\ UNCHANGED <<handlers, joinCnt>>
         [] OTHER -> UNCHANGED <<regVars, joinCnt>>

\* how the history names the step that receives m: a loopback, a message
\* addressed to somebody else, a message other than a join or an offer from a
\* peer that has no entry, a leave of a peer that has one, or any other message
EvOfMessage(u, m) ==
  Ev(IF m.from = u THEN "loopback"
     ELSE IF m.to \in Ids \ {u} THEN "misaddressed"
     ELSE IF m.type \notin {"join", "offer"} /\ peersRef[u][m.from] = 0 THEN "unknownPeer"
     ELSE IF m.type = "leave" THEN "peerLeft"
     ELSE "other", u)

\* the broadcast callback of the channel, on a message the relay delivers
deliver(u, m) ==
  /\ m \in net /\ m.rcpt = u /\ chan[u][m.ch] = "subscribed"
  /\ net' = net \ {m}
  /\ handleSignal(u, [type |-> m.type, from |-> m.from, to |-> m.to])
  /\ EvOfMessage(u, m)
  /\ UNCHANGED <<mode, graceTimer, audioVars, shareVars, sessVars, budget, sent, left, alone>>

\* the broadcast callback of the channel, on a message another participant
\* (not modelled in detail) publishes, or that the relay echoes
receive(u, m) ==
  /\ budget > 0 /\ Listening(u)
  /\ budget' = budget - 1
  /\ handleSignal(u, m)
  /\ EvOfMessage(u, m)
  /\ UNCHANGED <<mode, graceTimer, audioVars, shareVars, sessVars, net, sent, left, alone>>

\* a suspended handler whose awaited call rejects: the promise of handleSignal
\* rejects and nothing after the await runs.  No caller awaits or catches that
\* promise; the history names the step "rejected" when the call that rejects
\* is the setRemoteDescription of a received offer or answer.
Rejects(u, h) ==
  /\ handlers' = [handlers EXCEPT ![u] = Resume(@, h)]
  /\ UNCHANGED <<peersRef, peers, pcs, net, sent>>

\* variant: the offer is published without an addressee
sendOfferToAll(u, h) ==
  /\ BagIn(h, handlers[u]) /\ h.kind = "join"
  /\ Ev("sendOffer", u)
  /\ UNCHANGED <<mode, graceTimer, audioVars, shareVars, sessVars, budget, joinCnt, left, alone>>
  /\ IF pcs[u][h.pc].sig \notin {"stable", "have-local-offer"} THEN Rejects(u, h)
     ELSE /\ handlers' = [handlers EXCEPT ![u] = Resume(@, h)]
          /\ pcs' = [pcs EXCEPT ![u][h.pc].sig = "have-local-offer"]
          /\ send(u, channelRef[u], Msg("offer", u, NoId))
          /\ UNCHANGED peersRef
          /\ setPeers(u)

\* "join": await createOffer(); await setLocalDescription(offer); then the offer
\* is sent and setPeers
sendOffer(u, h) ==
  /\ BagIn(h, handlers[u]) /\ h.kind = "join"
  /\ Ev("sendOffer", u)
  /\ UNCHANGED <<mode, graceTimer, audioVars, shareVars, sessVars, budget, joinCnt, left, alone>>
  /\ IF pcs[u][h.pc].sig \notin {"stable", "have-local-offer"} THEN Rejects(u, h)
     ELSE /\ handlers' = [handlers EXCEPT ![u] = Resume(@, h)]
          /\ pcs' = [pcs EXCEPT ![u][h.pc].sig = "have-local-offer"]
          /\ send(u, channelRef[u], Msg("offer", u, h.from))
          /\ UNCHANGED peersRef
          /\ setPeers(u)

\* "offer": await setRemoteDescription(offer).  On a connection that has a local
\* offer pending the platform either rolls the local offer back or rejects.
setRemoteOffer(u, h) ==
  /\ BagIn(h, handlers[u]) /\ h.kind = "offer" /\ h.step = "setRemoteDescription"
  /\ UNCHANGED <<mode, graceTimer, audioVars, shareVars, sessVars, budget, joinCnt, left, alone>>
  /\ \/ /\ pcs[u][h.pc].sig \in {"closed", "have-local-offer"}
        /\ Rejects(u, h)
        /\ Ev("rejected", u)
     \/ /\ pcs[u][h.pc].sig \in {"stable", "have-remote-offer", "have-local-offer"}
        /\ Ev("setRemoteOffer", u)
        /\ handlers' = [handlers EXCEPT ![u] =
                          Resume(@, h) (+) SetToBag({[h EXCEPT !.step = "createAnswer"]})]
        /\ pcs' = [pcs EXCEPT ![u][h.pc].sig = "have-remote-offer"]
        /\ UNCHANGED <<peersRef, peers, net, sent>>

\* variant: the description sent back for an offer is typed "offer"
sendAnswerAsOffer(u, h) ==
  /\ BagIn(h, handlers[u]) /\ h.kind = "offer" /\ h.step = "createAnswer"
  /\ Ev("sendAnswer", u)
  /\ UNCHANGED <<mode, graceTimer, audioVars, shareVars, sessVars, budget, joinCnt, left, alone>>
  /\ IF pcs[u][h.pc].sig # "have-remote-offer" THEN Rejects(u, h)
     ELSE /\ handlers' = [handlers EXCEPT ![u] = Resume(@, h)]
          /\ pcs' = [pcs EXCEPT ![u][h.pc].sig = "stable", ![u][h.pc].est = TRUE]
          /\ send(u, channelRef[u], Msg("offer", u, h.from))
          /\ UNCHANGED peersRef
          /\ setPeers(u)

\* "offer": await createAnswer(); await setLocalDescription(answer); then the
\* answer is sent and setPeers
sendAnswer(u, h) ==
  /\ BagIn(h, handlers[u]) /\ h.kind = "offer" /\ h.step = "createAnswer"
  /\ Ev("sendAnswer", u)
  /\ UNCHANGED <<mode, graceTimer, audioVars, shareVars, sessVars, budget, joinCnt, left, alone>>
  /\ IF pcs[u][h.pc].sig # "have-remote-offer" THEN Rejects(u, h)
     ELSE /\ handlers' = [handlers EXCEPT ![u] = Resume(@, h)]
          /\ pcs' = [pcs EXCEPT ![u][h.pc].sig = "stable", ![u][h.pc].est = TRUE]
          /\ send(u, channelRef[u], Msg("answer", u, h.from))
          /\ UNCHANGED peersRef
          /\ setPeers(u)

\* "answer": await setRemoteDescription(answer)
setRemoteAnswer(u, h) ==
  /\ BagIn(h, handlers[u]) /\ h.kind = "answer"
  /\ UNCHANGED <<mode, graceTimer, audioVars, shareVars, sessVars, budget, joinCnt, left, alone>>
  /\ IF pcs[u][h.pc].sig # "have-local-offer"
     THEN Rejects(u, h) /\ Ev("rejected", u)
     ELSE /\ Ev("setRemoteAnswer", u)
          /\ handlers' = [handlers EXCEPT ![u] = Resume(@, h)]
          /\ pcs' = [pcs EXCEPT ![u][h.pc].sig = "stable", ![u][h.pc].est = TRUE]
          /\ UNCHANGED <<peersRef, peers, net, sent>>

\* ====================================================== connection health
\* handleReconnect(peerId): the stale entry is closed and deleted, and the
\* re-announce is scheduled (an earlier timeout is cleared)
handleReconnect(u, p) ==
  /\ IF peersRef[u][p] # 0
     THEN /\ pcs' = [pcs EXCEPT ![u][peersRef[u][p]] = close(@)]
          /\ peersRef' = [peersRef EXCEPT ![u][p] = 0]
     ELSE UNCHANGED <<peersRef, pcs>>
  /\ reconnectTimer' = [reconnectTimer EXCEPT ![u] = TRUE]
  /\ UNCHANGED peers

\* onconnectionstatechange with connectionState "failed", on a connection that
\* has started to negotiate
connectionFailed(u, i) ==
  /\ budget > 0
  /\ i \in DOMAIN pcs[u] /\ IsOpen(pcs[u][i])
  /\ pcs[u][i].sig # "stable" \/ pcs[u][i].est
  /\ budget' = budget - 1
  /\ IF mode = "video"
     THEN handleReconnect(u, pcs[u][i].remote)
     ELSE /\ removePeer(u, pcs[u][i].remote)
          /\ UNCHANGED reconnectTimer
  /\ Ev("failed", u)
  /\ UNCHANGED <<mode, graceTimer, audioVars, shareVars, jc, lv, joins, localStreamRef, live, chan, channelRef, joinTimer,
                 isInCall, presence, handlers, net, histVars>>

\* the 2 s timeout of handleReconnect: the join is announced again
reannounce(u) ==
  /\ reconnectTimer[u]
  /\ reconnectTimer' = [reconnectTimer EXCEPT ![u] = FALSE]
  /\ send(u, channelRef[u], Msg("join", u, NoId))
  /\ Ev("reannounce", u)
  /\ UNCHANGED <<mode, graceTimer, audioVars, shareVars, jc, lv, joins, localStreamRef, live, chan, channelRef, joinTimer,
                 isInCall, presence, regVars, budget, joinCnt, left, alone>>

\* onconnectionstatechange with connectionState "connected"
connectionUp(u, i) ==
  /\ i \in DOMAIN pcs[u] /\ IsOpen(pcs[u][i])
  /\ pcs[u][i].est /\ pcs[u][i].conn \in {"new", "disconnected"}
  /\ pcs' = [pcs EXCEPT ![u][i].conn = "connected"]
  /\ Ev("connectionUp", u)
  /\ UNCHANGED <<mode, graceTimer, audioVars, shareVars, sessVars, peersRef, peers, handlers, net,
                 budget, histVars>>

\* onconnectionstatechange with connectionState "disconnected": the video hook
\* starts a 5 s timeout, the voice hook removes the entry
connectionDisconnected(u, i) ==
  /\ budget > 0
  /\ i \in DOMAIN pcs[u] /\ pcs[u][i].conn = "connected"
  /\ budget' = budget - 1
  /\ IF mode = "video"
     THEN /\ pcs' = [pcs EXCEPT ![u][i].conn = "disconnected"]
          /\ graceTimer' = [graceTimer EXCEPT ![u][pcs[u][i].remote] = @ + 1]
          /\ UNCHANGED <<peersRef, peers>>
     ELSE /\ removePeer(u, pcs[u][i].remote)
          /\ UNCHANGED graceTimer
  /\ Ev("disconnected", u)
  /\ UNCHANGED <<mode, audioVars, shareVars, sessVars, handlers, net, histVars>>

\* the 5 s timeout: the entry the registry holds for the peer at that moment is
\* removed when its connection is disconnected
graceExpired(u, p) ==
  /\ graceTimer[u][p] > 0
  /\ graceTimer' = [graceTimer EXCEPT ![u][p] = @ - 1]
  /\ IF peersRef[u][p] # 0 /\ pcs[u][peersRef[u][p]].conn = "disconnected"
     THEN removePeer(u, p)
     ELSE UNCHANGED <<peersRef, peers, pcs>>
  /\ Ev("graceExpired", u)
  /\ UNCHANGED <<mode, audioVars, shareVars, sessVars, handlers, net, budget, histVars>>

\* ------------------------------------------------------------ environment
\* the relay loses a message (or its recipient is gone)
lose(m) ==
  /\ m \in net
  /\ net' = net \ {m}
  /\ Ev("lose", NoId)
  /\ UNCHANGED <<mode, graceTimer, audioVars, shareVars, sessVars, regVars, budget, histVars>>


\* =========================================================== screen share
\* variant: the sender keeps the track it has
keepTrack(senders, t) == senders

\* getSenders().find(s => s.track?.kind === "video"), then replaceTrack(t)
replaceVideo(senders, t) ==
  LET vids == {i \in DOMAIN senders : senders[i].kind = "video"}
  IN IF vids = {} THEN senders
     ELSE [senders EXCEPT ![CHOOSE i \in vids : \A j \in vids : i <= j] = t]

\* peersRef.current.forEach: the video sender of every connection of the registry
replaceAll(u, t) ==
  [i \in DOMAIN pcs[u] |->
     IF \E p \in Ids : peersRef[u][p] = i
     THEN [pcs[u][i] EXCEPT !.senders = replaceVideo(@, t)]
     ELSE pcs[u][i]]

\* startScreenShare up to the await of getDisplayMedia; it returns at once when
\* channelRef.current is null
startScreenShare(u) ==
  /\ mode = "video" /\ channelRef[u] # 0
  /\ budget > 0
  /\ budget' = budget - 1
  /\ ss' = [ss EXCEPT ![u] = @ + 1]
  /\ Ev("startScreenShare", u)
  /\ UNCHANGED <<mode, graceTimer, audioVars, sessVars, regVars, screens, screenStreamRef, liveScreens,
                 isScreenSharing, stoppedInUse, net, histVars>>

\* getDisplayMedia resolved: the stream is kept, the video senders get its track
\* and the others are notified; channelRef.current.send throws when the channel
\* is gone by now, which the catch block reports
startScreenShareAcquired(u) ==
  /\ ss[u] > 0
  /\ ss' = [ss EXCEPT ![u] = @ - 1]
  /\ LET k == screens[u] + 1 IN
       /\ screens' = [screens EXCEPT ![u] = k]
       /\ screenStreamRef' = [screenStreamRef EXCEPT ![u] = k]
       /\ liveScreens' = [liveScreens EXCEPT ![u] = @ \cup {k}]
       /\ pcs' = [pcs EXCEPT ![u] = replaceAll(u, ScreenTrack(k))]
  /\ isScreenSharing' = [isScreenSharing EXCEPT ![u] = TRUE]
  /\ send(u, channelRef[u], Msg("screen-share-start", u, NoId))
  /\ Ev("startShare", u)
  /\ UNCHANGED <<mode, graceTimer, audioVars, sessVars, peersRef, peers, handlers, stoppedInUse, budget,
                 joinCnt, left, alone>>

\* getDisplayMedia rejected (the picker was dismissed): the catch block
startScreenShareDenied(u) ==
  /\ ss[u] > 0
  /\ ss' = [ss EXCEPT ![u] = @ - 1]
  /\ Ev("startScreenShareDenied", u)
  /\ UNCHANGED <<mode, graceTimer, audioVars, sessVars, regVars, screens, screenStreamRef, liveScreens,
                 isScreenSharing, stoppedInUse, net, budget, histVars>>

\* whether an open connection of u has a sender with track t
InUse(u, t) ==
  \E i \in DOMAIN pcs[u] : IsOpen(pcs[u][i]) /\ t \in SeqRange(pcs[u][i].senders)

StopEv(u) ==
  Ev(IF ev.op = "startShare" /\ ev.u = u THEN "stopAfterStart" ELSE "stopShare", u)

\* the body of stopScreenShare, when the screen streams in liveNow are live:
\* the tracks of the screen stream are stopped, then the video senders get the
\* camera track back, then the others are notified
stopShare(u, liveNow) ==
  /\ liveScreens' = [liveScreens EXCEPT ![u] = liveNow \ {screenStreamRef[u]}]
  /\ stoppedInUse' = [stoppedInUse EXCEPT ![u] =
                        @ \/ (/\ screenStreamRef[u] \in liveNow
                              /\ InUse(u, ScreenTrack(screenStreamRef[u])))]
  /\ screenStreamRef' = [screenStreamRef EXCEPT ![u] = 0]
  /\ pcs' = [pcs EXCEPT ![u] = IF localStreamRef[u] # 0
                                THEN replaceAll(u, CamTrack(localStreamRef[u]))
                                ELSE @]
  /\ isScreenSharing' = [isScreenSharing EXCEPT ![u] = FALSE]
  /\ send(u, channelRef[u], Msg("screen-share-stop", u, NoId))
  /\ StopEv(u)
  /\ UNCHANGED <<mode, graceTimer, audioVars, sessVars, peersRef, peers, handlers, ss, screens, joinCnt,
                 left, alone>>

\* stopScreenShare, called from the call view
stopScreenShare(u) ==
  /\ mode = "video"
  /\ budget > 0
  /\ budget' = budget - 1
  /\ stopShare(u, liveScreens[u])

\* videoTrack.onended of screen stream k: the platform ended the capture (the
\* "stop sharing" control of the browser), and the handler calls stopScreenShare
trackEnded(u, k) ==
  /\ k \in liveScreens[u]
  /\ stopShare(u, liveScreens[u] \ {k})
  /\ UNCHANGED budget

\* ======================================================= voice: mute, deafen
\* pc.ontrack of connection i: the incoming stream, its track enabled, is
\* stored in the current entry of the connection's peer, if there is one
ontrack(u, i) ==
  /\ i \in DOMAIN pcs[u] /\ IsOpen(pcs[u][i]) /\ pcs[u][i].rx = "none"
  /\ pcs[u][i].sig = "have-remote-offer" \/ pcs[u][i].est
  /\ LET j == peersRef[u][pcs[u][i].remote] IN
       IF j # 0 THEN pcs' = [pcs EXCEPT ![u][j].rx = "on"] ELSE UNCHANGED pcs
  /\ Ev("ontrack", u)
  /\ UNCHANGED <<mode, graceTimer, audioVars, shareVars, sessVars, peersRef, peers, handlers, net, budget,
                 histVars>>

\* toggleMute: flips the audio track of the local stream and the flag
toggleMute(u) ==
  /\ localStreamRef[u] # 0
  /\ micOn' = [micOn EXCEPT ![u] = ~@]
  /\ isMuted' = [isMuted EXCEPT ![u] = ~@]
  /\ Ev("toggleMute", u)
  /\ UNCHANGED <<mode, graceTimer, isDeafened, camVars, shareVars, sessVars, regVars, net, budget, histVars>>

\* the incoming tracks of every entry that has a stream get enabled = isDeafened
setIncoming(u, on) ==
  pcs' = [pcs EXCEPT ![u] =
            [i \in DOMAIN @ |->
               IF peersRef[u][@[i].remote] = i /\ @[i].rx # "none"
               THEN [@[i] EXCEPT !.rx = IF on THEN "on" ELSE "off"]
               ELSE @[i]]]

\* variant: deafen also disables the local audio track
toggleDeafenAll(u) ==
  /\ setIncoming(u, isDeafened[u])
  /\ micOn' = [micOn EXCEPT ![u] = isDeafened[u]]
  /\ isDeafened' = [isDeafened EXCEPT ![u] = ~@]
  /\ Ev("toggleDeafen", u)
  /\ UNCHANGED <<mode, graceTimer, isMuted, camVars, shareVars, sessVars, peersRef, peers, handlers, net,
                 budget, histVars>>

\* toggleDeafen
toggleDeafen(u) ==
  /\ setIncoming(u, isDeafened[u])
  /\ isDeafened' = [isDeafened EXCEPT ![u] = ~@]
  /\ Ev("toggleDeafen", u)
  /\ UNCHANGED <<mode, graceTimer, isMuted, micOn, camVars, shareVars, sessVars, peersRef, peers, handlers, net,
                 budget, histVars>>

\* toggleVideo (video hook): flips the video track of the local stream and the flag
toggleVideo(u) ==
  /\ mode = "video"
  /\ localStreamRef[u] # 0
  /\ camOn' = [camOn EXCEPT ![u] = ~@]
  /\ isVideoOff' = [isVideoOff EXCEPT ![u] = ~@]
  /\ Ev("toggleVideo", u)
  /\ UNCHANGED <<mode, graceTimer, isMuted, isDeafened, micOn, shareVars, sessVars, regVars, net,
                 budget, histVars>>

\* toggleMute or toggleVideo while localStreamRef.current is null: nothing is done
toggleIdle(u) ==
  /\ localStreamRef[u] = 0
  /\ Ev("toggleIdle", u)
  /\ UNCHANGED <<mode, graceTimer, audioVars, shareVars, sessVars, regVars, net, budget, histVars>>

\* ========================================================= specifications
VideoSession(u) == joinCall(u) \/ joinCallAcquired(u) \/ leaveCall(u)

VoiceSession(u) ==
  \/ joinRoom(u) \/ joinRoomAcquired(u) \/ joinRoomInserted(u)
  \/ leaveRoom(u) \/ leaveRoomDeleted(u)

Channel(u) ==
  \/ joinFailed(u)
  \/ \E n \in DOMAIN chan[u] : subscribed(u, n) \/ sendJoin(u, n)

Session(u) == VideoSession(u) \/ VoiceSession(u) \/ Channel(u)

Negotiation(u) ==
  \E h \in BagToSet(handlers[u]) :
    sendOffer(u, h) \/ setRemoteOffer(u, h) \/ sendAnswer(u, h) \/ setRemoteAnswer(u, h)

InitMesh ==
  /\ InitCommon
  /\ budget = MeshEvents

NextMesh ==
  \/ \E u \in Users :
       \/ Session(u)
       \/ Negotiation(u)
       \/ \E m \in net : deliver(u, m)
       \/ \E i \in DOMAIN pcs[u] : connectionFailed(u, i)
       \/ reannounce(u)
  \/ \E m \in net : lose(m)

SpecMesh == InitMesh /\ [][NextMesh]_vars

\* what the other participants can publish: any type, from b or c or an echo
\* of a's own identity, to nobody in particular or to a or to b
EnvMessages == [type : SignalTypes, from : Ids, to : {NoId, "a", "b"}]

InitEnv ==
  /\ InitCommon
  /\ budget = EnvEvents

NextEnv ==
  \/ Session("a")
  \/ Negotiation("a")
  \/ \E m \in EnvMessages : receive("a", m)
  \/ \E n \in DOMAIN chan["a"] : subscribeFailed("a", n)

SpecEnv == InitEnv /\ [][NextEnv]_vars


\* what the other participant b publishes while a shares its screen
ShareMessages == [type : {"join", "offer", "answer", "leave"}, from : {"b"}, to : {NoId}]

ScreenShare(u) ==
  \/ startScreenShare(u) \/ startScreenShareAcquired(u) \/ startScreenShareDenied(u)
  \/ stopScreenShare(u)
  \/ \E k \in liveScreens[u] : trackEnded(u, k)

InitShare ==
  /\ InitCommon
  /\ budget = ShareEvents
  /\ mode = "video"

NextShare ==
  \/ VideoSession("a")
  \/ Channel("a")
  \/ Negotiation("a")
  \/ ScreenShare("a")
  \/ \E m \in ShareMessages : receive("a", m)

SpecShare == InitShare /\ [][NextShare]_vars

\* ---------------------------------------------------------------- SpecAudio
\* a runs the voice hook, mutes and deafens at any moment; b publishes.
Audio(u) ==
  \/ toggleMute(u)
  \/ toggleDeafen(u)
  \/ \E i \in DOMAIN pcs[u] : ontrack(u, i)

InitAudio ==
  /\ InitCommon
  /\ budget = AudioEvents
  /\ mode = "voice"

NextAudio ==
  \/ VoiceSession("a")
  \/ Channel("a")
  \/ Negotiation("a")
  \/ Audio("a")
  \/ \E m \in ShareMessages : receive("a", m)

SpecAudio == InitAudio /\ [][NextAudio]_vars

\* ----------------------------------------------------------------- SpecPair
\* a and b join and stay; no message is lost, no connection fails, and every
\* step that is not a call of the user is eventually taken: promises settle,
\* timeouts fire, the relay delivers.
InitPair ==
  /\ InitCommon
  /\ budget = PairEvents

Settle(u) ==
  \/ joinCallAcquired(u)
  \/ joinRoomAcquired(u) \/ joinRoomInserted(u)
  \/ \E n \in DOMAIN chan[u] : subscribed(u, n) \/ sendJoin(u, n)

Relay(u) == \E m \in net : deliver(u, m)

NextPair ==
  \E u \in Users :
    \/ joinCall(u) \/ joinRoom(u)
    \/ Settle(u)
    \/ Relay(u)
    \/ Negotiation(u)

FairPair ==
  \A u \in Users :
    WF_vars(Settle(u)) /\ WF_vars(Relay(u)) /\ WF_vars(Negotiation(u))

SpecPair == InitPair /\ [][NextPair]_vars /\ FairPair

\* --------------------------------------------------------------- SpecHealth
\* a runs either hook, b publishes, and the connections of a come up, get
\* disconnected, recover and fail.
Health(u) ==
  \/ \E i \in DOMAIN pcs[u] :
       connectionUp(u, i) \/ connectionDisconnected(u, i) \/ connectionFailed(u, i)
  \/ \E p \in Ids : graceExpired(u, p)
  \/ reannounce(u)

InitHealth ==
  /\ InitCommon
  /\ budget = HealthEvents

NextHealth ==
  \/ Session("a")
  \/ Negotiation("a")
  \/ Health("a")
  \/ \E m \in ShareMessages : receive("a", m)

SpecHealth == InitHealth /\ [][NextHealth]_vars

\* --------------------------------------------------------------- SpecDepart
\* a and b join and leave; the relay loses nothing and delivers in any order;
\* every step but the calls of the users is eventually taken.
InitDepart ==
  /\ InitCommon
  /\ budget = DepartEvents

Depart(u) == leaveCall(u) \/ leaveRoom(u)

SettleDepart(u) == Settle(u) \/ leaveRoomDeleted(u)

NextDepart ==
  \E u \in Users :
    \/ joinCall(u) \/ joinRoom(u)
    \/ Depart(u)
    \/ SettleDepart(u)
    \/ Relay(u)
    \/ Negotiation(u)

FairDepart ==
  \A u \in Users :
    WF_vars(SettleDepart(u)) /\ WF_vars(Relay(u)) /\ WF_vars(Negotiation(u))

SpecDepart == InitDepart /\ [][NextDepart]_vars /\ FairDepart

\* ---------------------------------------------------------------- SpecRooms
\* a runs the voice hook and picks rooms from the room list, also while it is
\* connected; b publishes.
InitRooms ==
  /\ InitCommon
  /\ budget = RoomEvents
  /\ mode = "voice"

NextRooms ==
  \/ VoiceSession("a")
  \/ joinOtherRoom("a")
  \/ Channel("a")
  \/ Negotiation("a")
  \/ \E m \in ShareMessages : receive("a", m)

SpecRooms == InitRooms /\ [][NextRooms]_vars

\* ---------------------------------------------------------------- SpecMedia
\* a runs either hook, joins, leaves, picks another voice room while connected
\* and switches its microphone and camera off and on.
Media(u) == toggleMute(u) \/ toggleVideo(u) \/ toggleIdle(u)

InitMedia ==
  /\ InitCommon
  /\ budget = MediaEvents

NextMedia ==
  \/ Session("a")
  \/ joinOtherRoom("a")
  \/ Media("a")

SpecMedia == InitMedia /\ [][NextMedia]_vars
\* ================================================================= claims
OffersSent(u, p) == CopiesIn(Msg("offer", u, p), sent[u])
JoinsSent(u) == CopiesIn(Msg("join", u, NoId), sent[u])
LeavesSent(u) == CopiesIn(Msg("leave", u, NoId), sent[u])

\* handleSignal invocations of u for a join of p that have not sent their offer
JoinHandlers(u, p) ==
  LET hs == {h \in BagToSet(handlers[u]) : h.kind = "join" /\ h.from = p}
  IN BagCardinality([h \in hs |-> handlers[u][h]])

AllClosed(u) == \A i \in DOMAIN pcs[u] : ~IsOpen(pcs[u][i])

\* C1: for any two participants, offers flow in one direction only: it never
\* happens that A has sent an offer addressed to B and B one addressed to A.
OneOfferDirection ==
  \A A \in Users, B \in Users :
    A # B => ~(OffersSent(A, B) > 0 /\ OffersSent(B, A) > 0)

\* C2 as stated: when A was active before B arrived (nobody heard A's own join)
\* and A has handled a join of B, the pair has at most one offer, from A to B,
\* and none from B to A, whatever happens to the connection afterwards.
OneOfferFromActive ==
  \A A \in Users, B \in Users :
    (A # B /\ alone[A] /\ joinCnt[A][B] > 0)
      => (OffersSent(A, B) <= 1 /\ OffersSent(B, A) = 0)

\* C2 amended: every offer A sends to P answers a join of P that A handled, at
\* most one offer per handled join; and B handles no more joins of A than A
\* announced, so when nobody heard A's own join, B sends A an offer only for a
\* join that A announced again on its reconnection path.
OffersAnswerJoins ==
  /\ \A A \in Users, P \in Ids :
       OffersSent(A, P) + JoinHandlers(A, P) <= joinCnt[A][P]
  /\ \A A \in Users, B \in Users :
       A # B => joinCnt[B][A] + (IF alone[A] THEN 1 ELSE 0) <= JoinsSent(A)

\* C2 witness: a was there first, its connection to b failed, it announced its
\* join again and b answered that join with an offer of its own
ReconnectOffer ==
  /\ alone["a"] /\ JoinsSent("a") >= 2
  /\ OffersSent("a", "b") >= 1 /\ OffersSent("b", "a") >= 1

\* a handleSignal invocation for a join or an offer that this step has started
Started(u, h) ==
  /\ h.kind \in {"join", "offer"}
  /\ h.step = (IF h.kind = "join" THEN "createOffer" ELSE "setRemoteDescription")
  /\ CopiesIn(h, handlers'[u]) > CopiesIn(h, handlers[u])

OpenTo(u, p) == {i \in DOMAIN pcs[u] : IsOpen(pcs[u][i]) /\ pcs[u][i].remote = p}

\* C3: for every peer identity P the participant has at most one open
\* connection to P, and it is the one of P's registry entry; a step that takes
\* up a join or an offer of P ends with an entry for P, and when there was an
\* entry already the step keeps it and creates no connection.
OneEntryPerPeer ==
  /\ [](\A p \in Ids :
          OpenTo("a", p) = (IF peersRef["a"][p] = 0 THEN {} ELSE {peersRef["a"][p]}))
  /\ [][\A h \in BagToSet(handlers'["a"]) :
          Started("a", h) =>
            /\ peersRef'["a"][h.from] = h.pc
            /\ h.pc \in OpenTo("a", h.from)'
            /\ peersRef["a"][h.from] # 0 =>
                 (peersRef' = peersRef /\ Len(pcs'["a"]) = Len(pcs["a"]))]_vars

\* C3 witness: a second join of b has been taken up on the one connection to b
DuplicateJoinReused ==
  /\ joinCnt["a"]["b"] >= 2
  /\ peersRef["a"]["b"] = 1 /\ Len(pcs["a"]) = 1
  /\ JoinHandlers("a", "b") >= 1

\* C4: the step that receives a message from the participant itself, or one
\* addressed to another identity, changes neither the registry nor the session
\* and sends nothing.
StrayDiscarded ==
  [][ev'.op \in {"loopback", "misaddressed"} =>
       UNCHANGED <<sessVars, regVars, net, sent, joinCnt>>]_vars

\* C4 witness: a message addressed to somebody else has reached a participant
\* that has an entry in its registry
MisaddressedReceived ==
  /\ ev.op = "misaddressed" /\ ev.u = "a"
  /\ peersRef["a"] # NoEntries

Quiescent(u) ==
  /\ jc[u] = "idle" /\ lv[u] = 0
  /\ handlers[u] = EmptyBag
  /\ joinTimer[u] = {} /\ ~reconnectTimer[u]
  /\ \A n \in DOMAIN chan[u] : chan[u][n] # "pending"

\* C6: when leave was called (and join was not called after it) and nothing is
\* in flight any more, the registry is empty, every connection is closed, every
\* capture stream is stopped and the session is not in call.
LeaveIsFinal ==
  \A u \in Users :
    (left[u] /\ Quiescent(u)) =>
      (peersRef[u] = NoEntries /\ AllClosed(u) /\ live[u] = {} /\ ~isInCall[u])

\* C10: after a leave call, and after a second one that follows it directly,
\* the registry is empty; the second call sends nothing and changes nothing
\* of the session or the registry.
LeaveTwice ==
  /\ [](ev.op \in {"leave", "leaveAgain"} => peersRef[ev.u] = NoEntries)
  /\ [][ev'.op = "leaveAgain" =>
          UNCHANGED <<jc, joins, localStreamRef, live, chan, channelRef, joinTimer,
                      reconnectTimer, isInCall, presence, regVars, net, sent>>]_vars

\* C10 witness: the second of two leave calls that end a call with a peer
LeftTwice ==
  /\ ev.op = "leaveAgain" /\ ev.u = "a"
  /\ LeavesSent("a") = 1
  /\ Len(pcs["a"]) >= 1

Entries(u) == {peersRef[u][p] : p \in {q \in Ids : peersRef[u][q] # 0}}
VideoTracks(pc) == {t \in SeqRange(pc.senders) : t.kind = "video"}
VideoSenders(pc) == {i \in DOMAIN pc.senders : pc.senders[i].kind = "video"}
FirstVideoTrack(pc) ==
  pc.senders[CHOOSE i \in VideoSenders(pc) : \A j \in VideoSenders(pc) : i <= j]

\* C7: while the participant shares its screen, every connection of its
\* registry has exactly one video sender, and it carries the screen track.
ScreenOnEveryPeer ==
  \A u \in Users :
    isScreenSharing[u] =>
      \A i \in Entries(u) :
        /\ Cardinality(VideoSenders(pcs[u][i])) = 1
        /\ VideoTracks(pcs[u][i]) = {ScreenTrack(screenStreamRef[u])}

\* what a share step may change of a connection: the tracks of its senders
SameButTracks(pc, qc) ==
  /\ pc.remote = qc.remote /\ pc.sig = qc.sig /\ pc.conn = qc.conn /\ pc.est = qc.est
  /\ pc.rx = qc.rx
  /\ Len(pc.senders) = Len(qc.senders)
  /\ \A i \in DOMAIN pc.senders :
       pc.senders[i] # qc.senders[i] => pc.senders[i].kind = "video"

\* C8: the step that completes startScreenShare and the stopScreenShare step
\* close no connection, create none, keep the registry and send no offer or
\* answer; only tracks of video senders change: after the start the first video
\* sender of every connection of the registry carries the screen track, after
\* the stop no sender of such a connection carries a screen track and every
\* video sender carries the camera track.
ShareKeepsConnections ==
  /\ [][ev'.op \in {"startShare", "stopShare", "stopAfterStart"} =>
          /\ UNCHANGED <<peersRef, peers, handlers, sessVars>>
          /\ DOMAIN pcs'["a"] = DOMAIN pcs["a"]
          /\ \A i \in DOMAIN pcs["a"] : SameButTracks(pcs["a"][i], pcs'["a"][i])
          /\ \A m \in BagToSet(sent'["a"]) :
               CopiesIn(m, sent'["a"]) # CopiesIn(m, sent["a"]) =>
                 m.type \in {"screen-share-start", "screen-share-stop"}]_vars
  /\ [](ev.op = "startShare" =>
          \A i \in Entries("a") :
            VideoTracks(pcs["a"][i]) # {} =>
              FirstVideoTrack(pcs["a"][i]) = ScreenTrack(screenStreamRef["a"]))
  /\ [](ev.op \in {"stopShare", "stopAfterStart"} =>
          \A i \in Entries("a") :
            VideoTracks(pcs["a"][i]) \subseteq {CamTrack(localStreamRef["a"])})

\* C8 witness: the share was stopped right after it started, with a connection
\* to b that was negotiated before
SharedAndStopped ==
  /\ ev.op = "stopAfterStart"
  /\ peersRef["a"]["b"] # 0
  /\ pcs["a"][peersRef["a"]["b"]].sig = "have-local-offer"
  /\ CamTrack(localStreamRef["a"]) \in SeqRange(pcs["a"][peersRef["a"]["b"]].senders)

\* C9: no track is ever stopped while an open connection has a sender that
\* carries it.
NeverStoppedInUse == \A u \in Users : ~stoppedInUse[u]

\* C11: every step in which a participant hands a join to channel.send is
\* the 100 ms timeout of a channel that is subscribed at that moment, or the
\* reconnection timeout while channelRef.current is a subscribed channel.
JoinOnlyWhileSubscribed ==
  [][\A u \in Users :
       JoinsSent(u)' > JoinsSent(u) =>
         \/ \E n \in joinTimer[u] \ joinTimer'[u] : chan[u][n] = "subscribed"
         \/ /\ reconnectTimer[u] /\ ~reconnectTimer'[u]
            /\ channelRef[u] # 0 /\ chan[u][channelRef[u]] = "subscribed"]_vars

AnswersSent(u, p) == CopiesIn(Msg("answer", u, p), sent[u])

\* C17: when the participant has offered to P (and answered nothing of P),
\* the setRemoteDescription of an answer of P never runs on a connection
\* whose signaling state is stable.
AnswerNeverOnStable ==
  [][\A h \in BagToSet(handlers["a"]) :
       (/\ h.kind = "answer"
        /\ CopiesIn(h, handlers'["a"]) < CopiesIn(h, handlers["a"])
        /\ OffersSent("a", h.from) > 0 /\ AnswersSent("a", h.from) = 0)
         => pcs["a"][h.pc].sig # "stable"]_vars

\* C20: the session is never reported active (isInCall, isConnected) while
\* the subscription of its channel is still pending.
ActiveOnlySubscribed ==
  \A u \in Users :
    (isInCall[u] /\ channelRef[u] # 0) => chan[u][channelRef[u]] # "pending"

FailedSubscriptionCleansUp ==
  \A u \in Users : \A n \in DOMAIN chan[u] :
    chan[u][n] = "errored" =>
      /\ channelRef[u] # n
      /\ n = Len(chan[u]) => (~isInCall[u] /\ localStreamRef[u] = 0)

\* C14: the rejection of the setRemoteDescription of a received offer or
\* answer never leaves handleSignal as a rejection that nothing handles.
NoRejectionEscapes == ev.op # "rejected"

\* C15: a deafen toggle changes neither the enabled state of the local audio
\* track nor the muted flag; a mute toggle changes neither the enabled state
\* of an incoming track nor the deafened flag.
TogglesAreIndependent ==
  [][/\ ev'.op = "toggleDeafen" => (micOn' = micOn /\ isMuted' = isMuted)
     /\ ev'.op = "toggleMute" =>
          /\ isDeafened' = isDeafened
          /\ \A u \in Users : \A i \in DOMAIN pcs[u] : pcs'[u][i].rx = pcs[u][i].rx]_vars

\* C15 witness: deafen toggled while muted, with an incoming track switched off
DeafenedWhileMuted ==
  /\ ev.op = "toggleDeafen" /\ isDeafened["a"]
  /\ isMuted["a"] /\ ~micOn["a"]
  /\ \E i \in DOMAIN pcs["a"] : pcs["a"][i].rx = "off"

\* the entry of u for p has completed its negotiation
Negotiated(u, p) == peersRef[u][p] # 0 /\ pcs[u][peersRef[u][p]].est

HandshakeDone(X, Y) ==
  /\ OffersSent(X, Y) = 1 /\ AnswersSent(Y, X) = 1
  /\ Negotiated(X, Y) /\ Negotiated(Y, X)

\* C16: when X was active before Y arrived and Y announces its join, X sends
\* Y at most one offer and Y sends X at most one answer and no offer, and
\* eventually exactly one offer and one answer have been sent and both sides
\* hold an entry for the other whose negotiation has completed.
HandshakeCompletes ==
  \A X \in Users, Y \in Users :
    X # Y =>
      /\ [](alone[X] => /\ OffersSent(X, Y) <= 1 /\ OffersSent(Y, X) = 0
                        /\ AnswersSent(Y, X) <= 1 /\ AnswersSent(X, Y) = 0)
      /\ (alone[X] /\ JoinsSent(Y) >= 1) ~> HandshakeDone(X, Y)

\* C16 witness: a was there first and the handshake with b has completed
PairConnected == alone["a"] /\ HandshakeDone("a", "b")

\* the entries that a step removes from the registry of u
Removed(u) == {p \in Ids : peersRef[u][p] # 0 /\ peersRef'[u][p] = 0}

\* C18: a "disconnected" event removes no entry; the grace timeout removes
\* only an entry whose connection is disconnected at that moment, and keeps
\* every other entry.
GraceBeforeRemoval ==
  [][\A u \in Users :
       /\ (ev'.op = "disconnected" /\ ev'.u = u) => Removed(u) = {}
       /\ (ev'.op = "graceExpired" /\ ev'.u = u) =>
            \A p \in Removed(u) : pcs[u][peersRef[u][p]].conn = "disconnected"]_vars

\* C19: a "failed" event closes and removes the entry of the peer and leaves
\* the re-announce of the join scheduled.
FailureSchedulesRejoin ==
  [][\A u \in Users :
       (ev'.op = "failed" /\ ev'.u = u) =>
          /\ \A p \in Removed(u) : ~IsOpen(pcs'[u][peersRef[u][p]])
          /\ Removed(u) # {}
          /\ reconnectTimer'[u]]_vars

\* the suspended handlers of kind k that a step of u completes or abandons
Finished(u, k) ==
  {h \in BagToSet(handlers[u]) :
     h.kind = k /\ CopiesIn(h, handlers'[u]) < CopiesIn(h, handlers[u])}

Created(u) == {p \in Ids : peersRef[u][p] = 0 /\ peersRef'[u][p] # 0}

\* C22: an entry for P is created only by the step that takes up a join or an
\* offer of P; the step that receives any other message from a peer without
\* an entry changes neither the registry nor the session, starts no handler
\* (so nothing can reject) and sends nothing.
EntryOnlyByJoinOrOffer ==
  [][\A u \in Users :
       /\ \A p \in Created(u) :
            \E h \in BagToSet(handlers'[u]) :
              Started(u, h) /\ h.from = p /\ h.pc = peersRef'[u][p]
       /\ (ev'.op = "unknownPeer" /\ ev'.u = u) =>
            UNCHANGED <<regVars, sessVars, net, sent, joinCnt>>]_vars

\* C22 witness: a, in a call and with an empty registry, has received such a
\* message
UnknownPeerDropped ==
  /\ ev.op = "unknownPeer" /\ ev.u = "a"
  /\ isInCall["a"] /\ peersRef["a"] = NoEntries

\* C23: the step that receives a leave of a peer P that has an entry removes
\* that entry and closes its connection, and changes no other entry, no other
\* connection, no handler and nothing of the session; the exposed map then
\* has the keys of the registry.  (The leave of a peer without an entry
\* changes nothing: EntryOnlyByJoinOrOffer.)
LeaveRemovesOnlyLeaver ==
  [][\A u \in Users :
       (ev'.op = "peerLeft" /\ ev'.u = u) =>
         \E P \in Ids :
           /\ peersRef[u][P] # 0
           /\ peersRef' = [peersRef EXCEPT ![u][P] = 0]
           /\ pcs' = [pcs EXCEPT ![u][peersRef[u][P]] = close(@)]
           /\ peers'[u] = {q \in Ids : peersRef'[u][q] # 0}
           /\ UNCHANGED <<handlers, sessVars, net, sent, joinCnt>>]_vars

\* C23 witness: b has left and its connection is closed, the entry of c is
\* still there with its connection open
LeaverGoneOtherStays ==
  /\ ev.op = "peerLeft" /\ ev.u = "a"
  /\ peersRef["a"]["b"] = 0 /\ \E i \in DOMAIN pcs["a"] : pcs["a"][i].remote = "b"
  /\ AllClosed("a") = FALSE
  /\ peersRef["a"]["c"] # 0 /\ IsOpen(pcs["a"][peersRef["a"]["c"]])

\* C24: once the participant has called leave, and until it calls join again,
\* it sends no join.
NoJoinAfterLeave ==
  [][\A u \in Users : left[u] => JoinsSent(u)' = JoinsSent(u)]_vars

\* C25: when P has left for good, having sent its join before it left, every
\* participant that stays in the call eventually holds no entry for P, and
\* keeps none.
LeaverEventuallyForgotten ==
  \A P \in Users, X \in Users :
    (/\ P # X
     /\ <>[](left[P] /\ ~isInCall[P])
     /\ [](left[P] => joinTimer[P] = {})
     /\ <>[]isInCall[X])
      => <>[](peersRef[X][P] = 0)

SubscribedChannels(u) == {n \in DOMAIN chan[u] : chan[u][n] = "subscribed"}

\* C26: the voice participant has at most one live capture stream, at most
\* one subscribed channel and at most one presence row, and every open
\* connection is the one of a registry entry.
OneRoomAtATime ==
  \A u \in Users :
    /\ Cardinality(live[u]) <= 1
    /\ Cardinality(SubscribedChannels(u)) <= 1
    /\ presence[u] <= 1
    /\ \A i \in DOMAIN pcs[u] : IsOpen(pcs[u][i]) => peersRef[u][pcs[u][i].remote] = i

\* C27: the incoming audio track of every entry that has a stream is disabled
\* exactly when the participant is deafened.
DeafenedMeansSilent ==
  \A u \in Users : \A i \in Entries(u) :
    pcs[u][i].rx # "none" => (pcs[u][i].rx = "off" <=> isDeafened[u])

\* C28: at most one screen stream is live, and none is live when
\* stopScreenShare or leave has just completed.
OneScreenStream ==
  \A u \in Users :
    /\ Cardinality(liveScreens[u]) <= 1
    /\ (ev.u = u /\ ev.op \in {"stopShare", "stopAfterStart", "leave", "leaveAgain"})
         => liveScreens[u] = {}

\* no handler, join, leave or timer of u is in progress
Idle(u) ==
  /\ Quiescent(u)
  /\ \A p \in Ids : graceTimer[u][p] = 0

\* C29: whenever nothing is in progress, the exposed map has the keys of the
\* registry.
ExposedMatchesRegistry ==
  \A u \in Users : Idle(u) => peers[u] = {p \in Ids : peersRef[u][p] # 0}

\* C30: while the participant holds a local stream, the muted flag says
\* whether its audio track is disabled and the video-off flag whether its video
\* track is disabled; a toggle without a local stream changes nothing; a leave
\* leaves both flags false.
FlagsMatchTracks ==
  /\ [](\A u \in Users :
          localStreamRef[u] # 0 =>
            /\ isMuted[u] <=> ~micOn[u]
            /\ mode = "video" => (isVideoOff[u] <=> ~camOn[u]))
  /\ [][ev'.op = "toggleIdle" => UNCHANGED <<audioVars, sessVars, regVars>>]_vars
  /\ [](ev.op \in {"leave", "leaveAgain"} /\ mode = "video"
          => (~isMuted[ev.u] /\ ~isVideoOff[ev.u]))
====
